---- MODULE Spec2Model ----
(***************************************************************************)
(* Model of the MySQL-vs-MongoDB benchmark harness: the list helpers of    *)
(* utils.py, the QueryBenchmark orchestrator of benchmarker.py with its    *)
(* construction, and the QueryBenchmark of main.py.                        *)
(***************************************************************************)
EXTENDS Integers, Sequences, FiniteSets, TLC

VARIABLES
    \* ---- utils.py: one call of a helper --------------------------------
    fn,         \* which helper was called: "none", "divide_chunks", "scale_list_repeat"
    arg_list,   \* its list argument (data / lst)
    arg_n,      \* its integer argument (n)
    ret,        \* what the call produced: [status, value]
    \* ---- benchmarker.py: QueryBenchmark's fields -----------------------
    queries,                \* self.queries: the registered workloads' labels
    results,                \* self.results: (name, mysql_time, mongo_time)
    inserted_cccds_mysql,   \* self.inserted_cccds_mysql
    inserted_cccds_mongo,   \* self.inserted_cccds_mongo
    \* ---- the call in progress and its locals --------------------------
    pc,             \* where the orchestrator thread stands
    phase,          \* which concurrent phase is open
    num,            \* the num argument of the concurrent call
    i,              \* run(): index of the workload being processed
    mysql_time,     \* local mysql_time
    mongo_time,     \* local mongo_time
    chunks,         \* local chunks
    tasks,          \* the futures of the open executor, one per submitted chunk
    task_failed,    \* some future of the call in progress holds an exception
    raised,         \* the exception that left the last call
    \* ---- what the backends and the harness have seen ------------------
    mysql_submitted,    \* keys of the rows handed to _insert_mysql tasks
    mongo_submitted,    \* keys of the documents handed to _insert_mongo tasks
    executed,           \* run(): the timed reads completed, in order
    calls,              \* calls made so far
    \* ---- benchmarker.py: construction against the two databases -------
    mysql_index,        \* thanh_vien has the index idx_thanh_vien_cccd
    mongo_index,        \* the collection has the index idx_cccd
    constructions,      \* QueryBenchmark objects constructed so far
    \* ---- main.py: its QueryBenchmark's fields --------------------------
    main_queries,               \* self.queries
    main_results_set,           \* the object has an attribute results
    main_results,               \* self.results, once it is set
    main_inserted_cccds,        \* self.inserted_cccds
    main_inserts_per_thread,    \* self.inserts_per_thread
    \* ---- main.py: the call in progress ---------------------------------
    main_pc,            \* where the main thread stands
    main_phase,         \* which pool is open
    main_num,           \* the num argument of the call
    main_i,             \* run(): index of the workload being processed
    main_mysql_time,    \* local mysql_time of the insert / update benchmark
    main_tasks,         \* the futures of the open executor
    main_raised,        \* the exception that left the last call
    \* ---- main.py: what the script has seen -----------------------------
    main_figure,        \* the bars of the figure shown last, if any
    main_last,          \* the method called last, its num, and whether it is the
                        \* write_mongo(num) right after a write_mysql(num)
    main_paired,        \* every write_mysql(num) so far was followed by write_mongo(num)
    main_calls          \* benchmark calls made so far

utilVars == <<fn, arg_list, arg_n, ret>>

fieldVars == <<queries, results, inserted_cccds_mysql, inserted_cccds_mongo>>

localVars == <<pc, phase, num, i, mysql_time, mongo_time, chunks, tasks, task_failed, raised>>

seenVars == <<mysql_submitted, mongo_submitted, executed, calls>>

setupVars == <<mysql_index, mongo_index, constructions>>

mainFieldVars == <<main_queries, main_results_set, main_results, main_inserted_cccds,
                   main_inserts_per_thread>>

mainLocalVars == <<main_pc, main_phase, main_num, main_i, main_mysql_time, main_tasks,
                   main_raised>>

mainSeenVars == <<main_figure, main_last, main_paired, main_calls>>

mainVars == <<mainFieldVars, mainLocalVars, mainSeenVars>>

\* Everything of benchmarker.py and utils.py
benchVars == <<utilVars, fieldVars, localVars, seenVars, setupVars>>

vars == <<benchVars, mainVars>>

\* ------------------------------------------------------------------------
\* Bounds of the model
\* ------------------------------------------------------------------------
MaxElem == 2        \* list elements are 1..MaxElem
MaxLen == 4         \* longest enumerated argument list
MaxN == 7           \* largest integer argument; the smallest is -MaxNeg
MaxNeg == 2

\* Python's None: apart from every duration, index, count and connection.
None == 0 - 1

Min(a, b) == IF a <= b THEN a ELSE b
Max(a, b) == IF a >= b THEN a ELSE b

\* All sequences over S of length at most len.
BoundedSeq(S, len) == UNION {[1..l -> S] : l \in 0..len}

\* The lists of the documented examples: [1,2,3] and [1..10].
ScenarioLists == {<<1, 2, 3>>, [e \in 1..10 |-> e]}

\* ------------------------------------------------------------------------
\* Python primitives used by utils.py
\* ------------------------------------------------------------------------
\* Python's floor division a // b for b # 0 (the quotient of divmod).
PyFloorDiv(a, b) == IF b > 0 THEN a \div b ELSE (0 - a) \div (0 - b)

\* Python's s[a:b]: negative indices count from the end, both are clamped.
PyIndex(len, a) == IF a < 0 THEN Max(a + len, 0) ELSE Min(a, len)
PySlice(s, a, b) ==
    LET lo == PyIndex(Len(s), a)
        hi == PyIndex(Len(s), b)
    IN  IF hi <= lo THEN <<>> ELSE SubSeq(s, lo + 1, hi)

Returned(v) == [status |-> "ok", value |-> v]
Raised(e) == [status |-> e, value |-> <<>>]

\* ------------------------------------------------------------------------
\* utils.py
\* ------------------------------------------------------------------------
\* A fault of divide_chunks: both ends of the slice use min(i, m).
divide_chunks_lossy(data, n) ==
    IF n = 0 THEN Raised("ZeroDivisionError")
    ELSE LET k == PyFloorDiv(Len(data), n)
             m == Len(data) - n * k
         IN  Returned([j \in 1..n |->
                 PySlice(data, (j - 1) * k + Min(j - 1, m), j * k + Min(j - 1, m))])

\* A fault of divide_chunks: the remainder goes to the last chunks.
divide_chunks_tail_heavy(data, n) ==
    IF n = 0 THEN Raised("ZeroDivisionError")
    ELSE LET k == PyFloorDiv(Len(data), n)
             m == Len(data) - n * k
             r == n - m
         IN  Returned([j \in 1..n |->
                 PySlice(data, (j - 1) * k + Max(j - 1 - r, 0), j * k + Max(j - r, 0))])

\* divide_chunks(data, n): divmod raises on n = 0; range(n) is empty for n < 0.
\* Chunk i (0-based) is data[i*k + min(i, m) : (i+1)*k + min(i+1, m)].
divide_chunks(data, n) ==
    IF n = 0 THEN Raised("ZeroDivisionError")
    ELSE LET k == PyFloorDiv(Len(data), n)
             m == Len(data) - n * k
         IN  Returned([j \in 1..n |->
                 PySlice(data, (j - 1) * k + Min(j - 1, m), j * k + Min(j, m))])

\* A fault of scale_list_repeat: the cycle restarts one element late.
scale_list_repeat_shifted(lst, n) ==
    IF lst = <<>> THEN <<>>
    ELSE IF Len(lst) >= n THEN PySlice(lst, 0, n)
    ELSE [j \in 1..n |-> lst[(j % Len(lst)) + 1]]

\* scale_list_repeat(lst, n)
scale_list_repeat(lst, n) ==
    IF lst = <<>> THEN <<>>
    ELSE IF Len(lst) >= n THEN PySlice(lst, 0, n)
    ELSE [j \in 1..n |-> lst[((j - 1) % Len(lst)) + 1]]

\* ------------------------------------------------------------------------
\* benchmarker.py: QueryBenchmark
\* ------------------------------------------------------------------------
Threads == 2        \* self.threads: workers per pool and chunks per batch
MaxKey == 2         \* _random_cccd draws from 1..MaxKey
MaxName == 1        \* _random_name draws from 1..MaxName
MaxNum == 2         \* largest num argument of a concurrent benchmark
MaxLabel == 2       \* workload labels are 1..MaxLabel
MaxQueries == 2     \* most workloads registered
MaxDur == 0         \* a measured duration is one of 0..MaxDur
MaxCalls == 2       \* most run / insert / update calls in a session
MaxConstructions == 2   \* most QueryBenchmark objects built on the same databases
MaxIpt == 2         \* inserts_per_thread is 1..MaxIpt
MaxMainCalls == 2   \* most benchmark calls of main.py's object in a session

Keys == 1..MaxKey
Names == 1..MaxName
Durations == 0..MaxDur

\* The connection a task works on: the orchestrator's own (self.mysql_conn,
\* self.mongo_col) or one the task opened itself.
OrchestratorConn == 0
OwnConn(t) == t

Range(s) == {s[j] : j \in 1..Len(s)}

IsPrefix(s, t) == Len(s) <= Len(t) /\ SubSeq(t, 1, Len(s)) = s

AllTasksOver ==
    /\ Len(tasks) = Len(chunks)
    /\ \A t \in 1..Len(tasks) : tasks[t].state \in {"done", "failed"}

NoLocals ==
    /\ phase' = "none"
    /\ num' = None
    /\ i' = None
    /\ mysql_time' = None
    /\ mongo_time' = None
    /\ chunks' = <<>>
    /\ tasks' = <<>>
    /\ task_failed' = FALSE

OrchInit ==
    /\ queries = <<>>
    /\ results = <<>>
    /\ inserted_cccds_mysql = <<>>
    /\ inserted_cccds_mongo = <<>>
    /\ pc = "idle"
    /\ phase = "none"
    /\ num = None
    /\ i = None
    /\ mysql_time = None
    /\ mongo_time = None
    /\ chunks = <<>>
    /\ tasks = <<>>
    /\ raised = "none"
    /\ mysql_submitted = {}
    /\ mongo_submitted = {}
    /\ executed = <<>>
    /\ task_failed = FALSE
    /\ calls = 0

\* add_query(label, mysql_query, mongo_pipeline)
add_query(label) ==
    /\ pc = "idle"
    /\ Len(queries) < MaxQueries
    /\ queries' = Append(queries, <<"Query", label>>)
    /\ UNCHANGED <<utilVars, mainVars, setupVars, results, inserted_cccds_mysql, inserted_cccds_mongo,
                   localVars, seenVars>>

\* A fault of the clear: the recorded keys are reset with the results.
ClearResults_with_keys ==
    /\ pc = "idle"
    /\ results # <<>>
    /\ results' = <<>>
    /\ inserted_cccds_mysql' = <<>>
    /\ inserted_cccds_mongo' = <<>>
    /\ UNCHANGED <<utilVars, mainVars, setupVars, queries, localVars, seenVars>>

\* benchmark.results = [] between the insert and the update rounds
ClearResults ==
    /\ pc = "idle"
    /\ results # <<>>
    /\ results' = <<>>
    /\ UNCHANGED <<utilVars, mainVars, setupVars, queries, inserted_cccds_mysql, inserted_cccds_mongo,
                   localVars, seenVars>>

\* ---- run() --------------------------------------------------------------
\* run(): self.results = [] and the loop is entered
run ==
    /\ pc = "idle"
    /\ calls < MaxCalls
    /\ calls' = calls + 1
    /\ results' = <<>>
    /\ executed' = <<>>
    /\ raised' = "none"
    /\ IF queries = <<>>
       THEN pc' = "idle" /\ i' = None
       ELSE pc' = "run_mysql" /\ i' = 1
    /\ UNCHANGED <<utilVars, mainVars, setupVars, queries, inserted_cccds_mysql, inserted_cccds_mongo,
                   phase, num, mysql_time, mongo_time, chunks, tasks, task_failed,
                   mysql_submitted, mongo_submitted>>

\* Exception e leaves the call in progress: nothing after the raising
\* statement runs, and nothing in the repository catches it.
Propagate(e) ==
    /\ raised' = e
    /\ pc' = "aborted"
    /\ UNCHANGED <<phase, num, i, mysql_time, mongo_time, chunks, tasks, task_failed>>

\* mysql_time, _ = self._run_mysql_query(mysql_q)
RunMysqlQuery ==
    /\ pc = "run_mysql"
    /\ \/ /\ \E d \in Durations : mysql_time' = d
          /\ executed' = Append(executed, <<"mysql", i>>)
          /\ pc' = "run_mongo"
          /\ UNCHANGED <<raised, phase, num, i, mongo_time, chunks, tasks, task_failed>>
       \/ /\ Propagate("mysql read error")
          /\ UNCHANGED executed
    /\ UNCHANGED <<utilVars, mainVars, setupVars, fieldVars, mysql_submitted, mongo_submitted, calls>>

\* A fault of run(): a failing MongoDB read still leaves a half-filled result.
RunMongoQuery_half_filled ==
    /\ pc = "run_mongo"
    /\ \/ /\ \E d \in Durations : mongo_time' = d
          /\ executed' = Append(executed, <<"mongo", i>>)
          /\ pc' = "run_append"
          /\ UNCHANGED <<raised, phase, num, i, mysql_time, chunks, tasks, task_failed,
                         results>>
       \/ /\ Propagate("mongo read error")
          /\ results' = Append(results,
                 [name |-> queries[i], mysql_time |-> mysql_time, mongo_time |-> None])
          /\ UNCHANGED executed
    /\ UNCHANGED <<utilVars, mainVars, setupVars, queries, inserted_cccds_mysql, inserted_cccds_mongo,
                   mysql_submitted, mongo_submitted, calls>>

\* mongo_time, _ = self._run_mongo_query(mongo_pipeline)
RunMongoQuery ==
    /\ pc = "run_mongo"
    /\ \/ /\ \E d \in Durations : mongo_time' = d
          /\ executed' = Append(executed, <<"mongo", i>>)
          /\ pc' = "run_append"
          /\ UNCHANGED <<raised, phase, num, i, mysql_time, chunks, tasks, task_failed>>
       \/ /\ Propagate("mongo read error")
          /\ UNCHANGED executed
    /\ UNCHANGED <<utilVars, mainVars, setupVars, fieldVars, mysql_submitted, mongo_submitted, calls>>

\* A fault of run(): the result is put in front of the list.
RunAppend_prepend ==
    /\ pc = "run_append"
    /\ results' = <<[name |-> queries[i], mysql_time |-> mysql_time,
                    mongo_time |-> mongo_time]>> \o results
    /\ IF i < Len(queries)
       THEN /\ i' = i + 1
            /\ pc' = "run_mysql"
            /\ UNCHANGED <<phase, num, mysql_time, mongo_time, chunks, tasks, task_failed>>
       ELSE /\ pc' = "idle"
            /\ NoLocals
    /\ UNCHANGED <<utilVars, mainVars, setupVars, queries, inserted_cccds_mysql, inserted_cccds_mongo,
                   raised, seenVars>>

\* self.results.append((name, mysql_time, mongo_time)), then the next workload
RunAppend ==
    /\ pc = "run_append"
    /\ results' = Append(results,
           [name |-> queries[i], mysql_time |-> mysql_time, mongo_time |-> mongo_time])
    /\ IF i < Len(queries)
       THEN /\ i' = i + 1
            /\ pc' = "run_mysql"
            /\ UNCHANGED <<phase, num, mysql_time, mongo_time, chunks, tasks, task_failed>>
       ELSE /\ pc' = "idle"
            /\ NoLocals
    /\ UNCHANGED <<utilVars, mainVars, setupVars, queries, inserted_cccds_mysql, inserted_cccds_mongo,
                   raised, seenVars>>

\* ---- the worker pool ------------------------------------------------------
\* A fault of _update_mysql: the tuple is unpacked as (cccd, new_name).
ItemKey_swapped(ph, item) ==
    CASE ph = "insert_mysql" -> item[1]
      [] ph = "insert_mongo" -> item.cccd
      [] ph = "update_mysql" -> item[1]
      [] ph = "update_mongo" -> item[1]

\* The key an item of a worker task's argument carries: _insert_mysql gets
\* (cccd, name, ...) tuples, _insert_mongo documents, _update_mysql unpacks
\* (new_name, cccd) and _update_mongo unpacks (cccd, new_name).
ItemKey(ph, item) ==
    CASE ph = "insert_mysql" -> item[1]
      [] ph = "insert_mongo" -> item.cccd
      [] ph = "update_mysql" -> item[2]
      [] ph = "update_mongo" -> item[1]

\* The new name an update item carries: the other half of the tuple.
ItemName(ph, item) ==
    CASE ph = "update_mysql" -> item[1]
      [] ph = "update_mongo" -> item[2]

ChunkKeys(ph, chunk) == {ItemKey(ph, chunk[j]) : j \in 1..Len(chunk)}

\* The connection a worker task of a phase works on: _insert_mysql and
\* _update_mysql connect, _update_mongo builds a MongoClient, _insert_mongo
\* goes through self.mongo_col.
TaskConn(ph, t) ==
    IF ph = "insert_mongo" THEN OrchestratorConn ELSE OwnConn(t)

\* executor.submit(worker, chunk) for the next chunk; after the last one the
\* orchestrator waits for the pool.
Submit ==
    /\ pc = "submit"
    /\ LET t == Len(tasks) + 1 IN
          /\ tasks' = Append(tasks, [state |-> "queued", conn |-> None, arg |-> chunks[t]])
          /\ mysql_submitted' = IF phase = "insert_mysql"
                                THEN mysql_submitted \cup ChunkKeys(phase, chunks[t])
                                ELSE mysql_submitted
          /\ mongo_submitted' = IF phase = "insert_mongo"
                                THEN mongo_submitted \cup ChunkKeys(phase, chunks[t])
                                ELSE mongo_submitted
          /\ pc' = IF t = Len(chunks) THEN "join" ELSE "submit"
    /\ UNCHANGED <<utilVars, mainVars, setupVars, fieldVars, phase, num, i, mysql_time, mongo_time, chunks,
                   task_failed, raised, executed, calls>>

\* A pool thread picks the task up; it works on its connection from here on.
\* Opening a MySQL connection may raise.
TaskStart(t) ==
    /\ pc \in {"submit", "join"}
    /\ t \in 1..Len(tasks)
    /\ tasks[t].state = "queued"
    /\ \/ /\ tasks' = [tasks EXCEPT ![t].state = "running", ![t].conn = TaskConn(phase, t)]
          /\ UNCHANGED task_failed
       \/ /\ phase \in {"insert_mysql", "update_mysql"}
          /\ tasks' = [tasks EXCEPT ![t].state = "failed"]
          /\ task_failed' = TRUE
    /\ UNCHANGED <<utilVars, mainVars, setupVars, fieldVars, pc, phase, num, i, mysql_time, mongo_time, chunks,
                   raised, seenVars>>

\* A fault of the insert workers: the task records the keys it has written.
TaskFinish_records_keys(t) ==
    /\ pc \in {"submit", "join"}
    /\ t \in 1..Len(tasks)
    /\ tasks[t].state = "running"
    /\ tasks' = [tasks EXCEPT ![t].state = "done", ![t].conn = None]
    /\ inserted_cccds_mysql' =
          IF phase = "insert_mysql"
          THEN inserted_cccds_mysql \o [j \in 1..Len(tasks[t].arg) |->
                                           ItemKey(phase, tasks[t].arg[j])]
          ELSE inserted_cccds_mysql
    /\ UNCHANGED <<utilVars, mainVars, setupVars, queries, results, inserted_cccds_mongo, pc, phase, num, i,
                   mysql_time, mongo_time, chunks, task_failed, raised, seenVars>>

\* The task has written its whole chunk, committed and closed.
TaskFinish(t) ==
    /\ pc \in {"submit", "join"}
    /\ t \in 1..Len(tasks)
    /\ tasks[t].state = "running"
    /\ tasks' = [tasks EXCEPT ![t].state = "done", ![t].conn = None]
    /\ UNCHANGED <<utilVars, mainVars, setupVars, fieldVars, pc, phase, num, i, mysql_time, mongo_time, chunks,
                   task_failed, raised, seenVars>>

\* A write of the task raises: the exception is stored in its future.
TaskFail(t) ==
    /\ pc \in {"submit", "join"}
    /\ t \in 1..Len(tasks)
    /\ tasks[t].state = "running"
    /\ tasks' = [tasks EXCEPT ![t].state = "failed", ![t].conn = None]
    /\ task_failed' = TRUE
    /\ UNCHANGED <<utilVars, mainVars, setupVars, fieldVars, pc, phase, num, i, mysql_time, mongo_time, chunks,
                   raised, seenVars>>

\* ---- benchmark_concurrent_insert -----------------------------------------
\* The MySQL batch is generated, its keys recorded, and the batch is chunked.
benchmark_concurrent_insert(n) ==
    /\ pc = "idle"
    /\ calls < MaxCalls
    /\ calls' = calls + 1
    /\ num' = n
    /\ \E cccds \in [1..n -> Keys], names \in [1..n -> Names] :
          /\ LET batch == [j \in 1..n |-> <<cccds[j], names[j]>>] IN
                chunks' = divide_chunks(batch, Threads).value
          /\ inserted_cccds_mysql' = inserted_cccds_mysql \o cccds
    /\ phase' = "insert_mysql"
    /\ pc' = "submit"
    /\ tasks' = <<>>
    /\ task_failed' = FALSE
    /\ raised' = "none"
    /\ UNCHANGED <<utilVars, mainVars, setupVars, queries, results, inserted_cccds_mongo, i, mysql_time,
                   mongo_time, mysql_submitted, mongo_submitted, executed>>

\* A fault of benchmark_concurrent_insert: the MySQL pool is not waited for.
InsertMysqlJoin_no_wait ==
    /\ pc = "join"
    /\ phase = "insert_mysql"
    /\ Len(tasks) = Len(chunks)
    /\ \E d \in Durations : mysql_time' = d
    /\ \E recorded \in [1..num -> Keys], cccds \in [1..num -> Keys],
          names \in [1..num -> Names] :
          /\ LET docs == [j \in 1..num |-> [ten |-> names[j], cccd |-> cccds[j]]] IN
                chunks' = divide_chunks(docs, Threads).value
          /\ inserted_cccds_mongo' = inserted_cccds_mongo \o recorded
    /\ phase' = "insert_mongo"
    /\ pc' = "submit"
    /\ tasks' = <<>>
    /\ UNCHANGED <<utilVars, mainVars, setupVars, queries, results, inserted_cccds_mysql, num, i, mongo_time,
                   task_failed, raised, seenVars>>

\* The MySQL pool has shut down (no future is asked for its result):
\* mysql_time is taken, the MongoDB documents are generated and chunked.
InsertMysqlJoin ==
    /\ pc = "join"
    /\ phase = "insert_mysql"
    /\ AllTasksOver
    /\ \E d \in Durations : mysql_time' = d
    /\ \E recorded \in [1..num -> Keys], cccds \in [1..num -> Keys],
          names \in [1..num -> Names] :
          /\ LET docs == [j \in 1..num |-> [ten |-> names[j], cccd |-> cccds[j]]] IN
                chunks' = divide_chunks(docs, Threads).value
          /\ inserted_cccds_mongo' = inserted_cccds_mongo \o recorded
    /\ phase' = "insert_mongo"
    /\ pc' = "submit"
    /\ tasks' = <<>>
    /\ UNCHANGED <<utilVars, mainVars, setupVars, queries, results, inserted_cccds_mysql, num, i, mongo_time,
                   task_failed, raised, seenVars>>

\* A fault of benchmark_concurrent_insert: the result replaces the list.
InsertMongoJoin_overwrite ==
    /\ pc = "join"
    /\ phase = "insert_mongo"
    /\ AllTasksOver
    /\ \E d \in Durations :
          results' = <<[name |-> <<"Concurrent Insert", num>>,
                       mysql_time |-> mysql_time, mongo_time |-> d]>>
    /\ pc' = "idle"
    /\ NoLocals
    /\ UNCHANGED <<utilVars, mainVars, setupVars, queries, inserted_cccds_mysql, inserted_cccds_mongo,
                   raised, seenVars>>

\* The MongoDB pool has shut down: mongo_time is taken, the result appended.
InsertMongoJoin ==
    /\ pc = "join"
    /\ phase = "insert_mongo"
    /\ AllTasksOver
    /\ \E d \in Durations :
          results' = Append(results, [name |-> <<"Concurrent Insert", num>>,
                                      mysql_time |-> mysql_time, mongo_time |-> d])
    /\ pc' = "idle"
    /\ NoLocals
    /\ UNCHANGED <<utilVars, mainVars, setupVars, queries, inserted_cccds_mysql, inserted_cccds_mongo,
                   raised, seenVars>>

\* ---- benchmark_concurrent_update -----------------------------------------
\* The keys of one backend scaled to n, as the loop over range(num) reads them.
ScaledKeys(keys, n) ==
    LET scaled == scale_list_repeat(keys, n)
    IN  SubSeq(scaled, 1, Min(n, Len(scaled)))

\* The MySQL updates (new_name, cccd) are built from the MySQL keys and chunked.
benchmark_concurrent_update(n) ==
    /\ pc = "idle"
    /\ calls < MaxCalls
    /\ calls' = calls + 1
    /\ num' = n
    /\ LET inserted_cccds == ScaledKeys(inserted_cccds_mysql, n) IN
          \E names \in [1..Len(inserted_cccds) -> Names] :
              LET updates == [j \in 1..Len(inserted_cccds) |->
                                 <<names[j], inserted_cccds[j]>>]
              IN  chunks' = divide_chunks(updates, Threads).value
    /\ phase' = "update_mysql"
    /\ pc' = "submit"
    /\ tasks' = <<>>
    /\ task_failed' = FALSE
    /\ raised' = "none"
    /\ UNCHANGED <<utilVars, mainVars, setupVars, fieldVars, i, mysql_time, mongo_time,
                   mysql_submitted, mongo_submitted, executed>>

\* future.result() of every MySQL task, then the pool shuts down: a stored
\* exception is re-raised; otherwise mysql_time is taken and the MongoDB
\* updates (cccd, new_name) are built from the MongoDB keys and chunked.
UpdateMysqlJoin ==
    /\ pc = "join"
    /\ phase = "update_mysql"
    /\ AllTasksOver
    /\ IF \E t \in 1..Len(tasks) : tasks[t].state = "failed"
       THEN /\ Propagate("worker error")
       ELSE /\ \E d \in Durations : mysql_time' = d
            /\ LET inserted_cccds == ScaledKeys(inserted_cccds_mongo, num) IN
                  \E names \in [1..Len(inserted_cccds) -> Names] :
                      LET updates == [j \in 1..Len(inserted_cccds) |->
                                         <<inserted_cccds[j], names[j]>>]
                      IN  chunks' = divide_chunks(updates, Threads).value
            /\ phase' = "update_mongo"
            /\ pc' = "submit"
            /\ tasks' = <<>>
            /\ UNCHANGED <<num, i, mongo_time, task_failed, raised>>
    /\ UNCHANGED <<utilVars, mainVars, setupVars, fieldVars, seenVars>>

\* future.result() of every MongoDB task: re-raise, or take mongo_time and
\* append the result.
UpdateMongoJoin ==
    /\ pc = "join"
    /\ phase = "update_mongo"
    /\ AllTasksOver
    /\ IF \E t \in 1..Len(tasks) : tasks[t].state = "failed"
       THEN /\ Propagate("worker error")
            /\ UNCHANGED results
       ELSE /\ \E d \in Durations :
                  results' = Append(results, [name |-> <<"Concurrent Update", num>>,
                                              mysql_time |-> mysql_time, mongo_time |-> d])
            /\ pc' = "idle"
            /\ NoLocals
            /\ UNCHANGED raised
    /\ UNCHANGED <<utilVars, mainVars, setupVars, queries, inserted_cccds_mysql, inserted_cccds_mongo, seenVars>>

\* ------------------------------------------------------------------------
\* Specification of the orchestrator
\* ------------------------------------------------------------------------
\* Construction is over and both indexes are in place.
SetupDone ==
    /\ mysql_index = TRUE
    /\ mongo_index = TRUE
    /\ constructions = 1

\* main.py's QueryBenchmark as __init__ leaves it: no attribute results yet.
MainConstructed ==
    /\ main_queries = <<>>
    /\ main_results_set = FALSE
    /\ main_results = <<>>
    /\ main_inserted_cccds = <<>>
    /\ main_pc = "idle"
    /\ main_phase = "none"
    /\ main_num = None
    /\ main_i = None
    /\ main_mysql_time = None
    /\ main_tasks = <<>>
    /\ main_raised = "none"
    /\ main_figure = <<>>
    /\ main_last = <<"__init__", None, FALSE>>
    /\ main_paired = TRUE
    /\ main_calls = 0

\* main.py's object built with the default inserts_per_thread.
MainIdle ==
    /\ MainConstructed
    /\ main_inserts_per_thread = 1

UtilIdle ==
    /\ fn = "none"
    /\ arg_list = <<>>
    /\ arg_n = 1
    /\ ret = None

Init == UtilIdle /\ SetupDone /\ MainIdle /\ OrchInit

Next ==
    \/ \E label \in 1..MaxLabel : add_query(label)
    \/ ClearResults
    \/ run
    \/ RunMysqlQuery
    \/ RunMongoQuery
    \/ RunAppend
    \/ \E n \in 0..MaxNum : benchmark_concurrent_insert(n)
    \/ InsertMysqlJoin
    \/ InsertMongoJoin
    \/ \E n \in 0..MaxNum : benchmark_concurrent_update(n)
    \/ UpdateMysqlJoin
    \/ UpdateMongoJoin
    \/ Submit
    \/ \E t \in 1..Threads : TaskStart(t) \/ TaskFinish(t) \/ TaskFail(t)

Spec == Init /\ [][Next]_vars

\* ------------------------------------------------------------------------
\* Specification of the helpers: any argument pair, then one call
\* ------------------------------------------------------------------------
UtilInit ==
    /\ fn = "none"
    /\ arg_list \in BoundedSeq(1..MaxElem, MaxLen) \cup ScenarioLists
    /\ arg_n \in (0 - MaxNeg)..MaxN
    /\ ret = None
    /\ SetupDone
    /\ MainIdle
    /\ OrchInit

CallDivideChunks ==
    /\ fn = "none"
    /\ fn' = "divide_chunks"
    /\ ret' = divide_chunks(arg_list, arg_n)
    /\ UNCHANGED <<arg_list, arg_n, setupVars, mainVars, fieldVars, localVars, seenVars>>

CallScaleListRepeat ==
    /\ fn = "none"
    /\ fn' = "scale_list_repeat"
    /\ ret' = Returned(scale_list_repeat(arg_list, arg_n))
    /\ UNCHANGED <<arg_list, arg_n, setupVars, mainVars, fieldVars, localVars, seenVars>>

UtilNext == CallDivideChunks \/ CallScaleListRepeat

SpecUtils == UtilInit /\ [][UtilNext]_vars

\* ------------------------------------------------------------------------
\* Specification of the construction: QueryBenchmark.__init__ with its two
\* index set-ups, on databases that may or may not hold the indexes yet
\* ------------------------------------------------------------------------
\* __init__ has connected and set self.queries = []; the set-ups come next.
Constructing ==
    /\ queries = <<>>
    /\ results = <<>>
    /\ inserted_cccds_mysql = <<>>
    /\ inserted_cccds_mongo = <<>>
    /\ pc = "ensure_mysql"
    /\ phase = "none"
    /\ num = None
    /\ i = None
    /\ mysql_time = None
    /\ mongo_time = None
    /\ chunks = <<>>
    /\ tasks = <<>>
    /\ raised = "none"
    /\ mysql_submitted = {}
    /\ mongo_submitted = {}
    /\ executed = <<>>
    /\ task_failed = FALSE
    /\ calls = 0

SetupInit ==
    /\ UtilIdle
    /\ MainIdle
    /\ Constructing
    /\ mysql_index \in BOOLEAN
    /\ mongo_index \in BOOLEAN
    /\ constructions = 1

\* _ensure_mysql_indexes(): SHOW INDEX, CREATE INDEX when there is none; a
\* mysql.connector.Error of either statement is caught and printed.
ensure_mysql_indexes ==
    /\ pc = "ensure_mysql"
    /\ \/ mysql_index' = TRUE
       \/ mysql_index' = mysql_index
    /\ pc' = "ensure_mongo"
    /\ UNCHANGED <<utilVars, mainVars, fieldVars, phase, num, i, mysql_time, mongo_time, chunks,
                   tasks, task_failed, raised, seenVars, mongo_index, constructions>>

\* _ensure_mongo_indexes(): create_index("cccd", name="idx_cccd") with no
\* handler around it; the rest of __init__ runs only when it returns.
ensure_mongo_indexes ==
    /\ pc = "ensure_mongo"
    /\ \/ /\ mongo_index' = TRUE
          /\ pc' = "idle"
          /\ UNCHANGED raised
       \/ /\ mongo_index' = mongo_index
          /\ Propagate("mongo index error")
    /\ UNCHANGED <<utilVars, mainVars, fieldVars, seenVars, mysql_index, constructions>>
    /\ UNCHANGED <<phase, num, i, mysql_time, mongo_time, chunks, tasks, task_failed>>

\* The next script constructs its own QueryBenchmark on the same databases.
Construct ==
    /\ pc = "idle"
    /\ constructions < MaxConstructions
    /\ constructions' = constructions + 1
    /\ queries' = <<>>
    /\ results' = <<>>
    /\ inserted_cccds_mysql' = <<>>
    /\ inserted_cccds_mongo' = <<>>
    /\ pc' = "ensure_mysql"
    /\ NoLocals
    /\ raised' = "none"
    /\ executed' = <<>>
    /\ calls' = 0
    /\ UNCHANGED <<utilVars, mainVars, mysql_submitted, mongo_submitted, mysql_index, mongo_index>>

SetupNext ==
    \/ ensure_mysql_indexes
    \/ ensure_mongo_indexes
    \/ Construct
    \/ \E label \in 1..MaxLabel : add_query(label)
    \/ run
    \/ RunMysqlQuery
    \/ RunMongoQuery
    \/ RunAppend

SpecSetup == SetupInit /\ [][SetupNext]_vars

\* ------------------------------------------------------------------------
\* main.py: its own QueryBenchmark
\* ------------------------------------------------------------------------
MainInit ==
    /\ UtilIdle
    /\ SetupDone
    /\ OrchInit
    /\ MainIdle

\* A method is entered: the script's call sequence moves on.
Enter(op) ==
    LET closes == main_last[1] = "write_mysql" /\ op = <<"write_mongo", main_last[2]>> IN
        /\ main_last' = <<op[1], op[2], closes>>
        /\ main_paired' = (main_paired /\ (main_last[1] = "write_mysql" => closes))

\* An exception leaves the call in progress; main.py catches none.
Main_Propagate(e) ==
    /\ main_raised' = e
    /\ main_pc' = "aborted"

Main_AllTasksOver ==
    /\ Len(main_tasks) = Threads
    /\ \A t \in 1..Threads : main_tasks[t].state \in {"done", "failed"}

Main_SomeTaskFailed == \E t \in 1..Len(main_tasks) : main_tasks[t].state = "failed"

Main_NoLocals ==
    /\ main_phase' = "none"
    /\ main_num' = None
    /\ main_i' = None
    /\ main_mysql_time' = None
    /\ main_tasks' = <<>>

\* add_query(label, mysql_query, mongo_pipeline)
Main_add_query(label) ==
    /\ main_pc = "idle"
    /\ Len(main_queries) < MaxQueries
    /\ main_queries' = Append(main_queries, <<"Query", label>>)
    /\ Enter(<<"add_query", None>>)
    /\ UNCHANGED <<benchVars, main_results_set, main_results, main_inserted_cccds,
                   main_inserts_per_thread, mainLocalVars, main_figure, main_calls>>

\* benchmark.inserts_per_thread = k, between two benchmarks
Main_set_inserts_per_thread(k) ==
    /\ main_pc = "idle"
    /\ k # main_inserts_per_thread
    /\ main_inserts_per_thread' = k
    /\ UNCHANGED <<benchVars, main_queries, main_results_set, main_results,
                   main_inserted_cccds, mainLocalVars, mainSeenVars>>

\* run(): self.results = [] and the loop is entered
Main_run ==
    /\ main_pc = "idle"
    /\ main_results_set' = TRUE
    /\ main_results' = <<>>
    /\ Enter(<<"run", None>>)
    /\ IF main_queries = <<>>
       THEN main_pc' = "idle" /\ main_i' = None
       ELSE main_pc' = "run" /\ main_i' = 1
    /\ UNCHANGED <<benchVars, main_queries, main_inserted_cccds, main_inserts_per_thread,
                   main_phase, main_num, main_mysql_time, main_tasks, main_raised,
                   main_figure, main_calls>>

\* One turn of run()'s loop: both timed reads and the append, or the error
\* of a read leaving run().
Main_RunQuery ==
    /\ main_pc = "run"
    /\ \/ /\ \E d1, d2 \in Durations :
                main_results' = Append(main_results,
                    [name |-> main_queries[main_i], mysql_time |-> d1, mongo_time |-> d2])
          /\ IF main_i < Len(main_queries)
             THEN main_i' = main_i + 1 /\ main_pc' = "run"
             ELSE main_i' = None /\ main_pc' = "idle"
          /\ UNCHANGED main_raised
       \/ /\ Main_Propagate("read error")
          /\ UNCHANGED <<main_results, main_i>>
    /\ UNCHANGED <<benchVars, main_queries, main_results_set, main_inserted_cccds,
                   main_inserts_per_thread, main_phase, main_num, main_mysql_time,
                   main_tasks, mainSeenVars>>

\* A benchmark method opens its first pool.
Main_Open(op, ph, n) ==
    /\ main_pc = "idle"
    /\ main_calls < MaxMainCalls
    /\ main_calls' = main_calls + 1
    /\ Enter(<<op, n>>)
    /\ main_phase' = ph
    /\ main_num' = n
    /\ main_tasks' = <<>>
    /\ main_pc' = "submit"
    /\ UNCHANGED <<benchVars, main_queries, main_results_set, main_results,
                   main_inserts_per_thread, main_i, main_mysql_time, main_raised,
                   main_figure>>

\* executor.submit(worker) for _ in range(self.threads), one at a time
Main_Submit ==
    /\ main_pc = "submit"
    /\ Len(main_tasks) < Threads
    /\ main_tasks' = Append(main_tasks, [state |-> "queued", arg |-> <<>>])
    /\ main_pc' = IF Len(main_tasks) + 1 = Threads THEN "join" ELSE "submit"
    /\ UNCHANGED <<benchVars, mainFieldVars, main_phase, main_num, main_i, main_mysql_time,
                   main_raised, mainSeenVars>>

\* The updates an update worker builds from self.inserted_cccds
UpdateCount == Min(main_inserts_per_thread, Len(main_inserted_cccds))

\* A fault of the insert workers: the keys generated are kept in
\* self.inserted_cccds.
Main_TaskStart_records_keys(t) ==
    /\ main_pc \in {"submit", "join"}
    /\ t \in 1..Len(main_tasks)
    /\ main_tasks[t].state = "queued"
    /\ \/ /\ main_phase \in {"write_mysql", "write_mongo", "insert_mysql", "insert_mongo"}
          /\ \E cccds \in [1..main_inserts_per_thread -> Keys],
                names \in [1..main_inserts_per_thread -> Names] :
                /\ main_tasks' = [main_tasks EXCEPT ![t] =
                      [state |-> "running",
                       arg |-> [j \in 1..main_inserts_per_thread |-> <<cccds[j], names[j]>>]]]
                /\ main_inserted_cccds' = main_inserted_cccds \o cccds
       \/ /\ main_phase \in {"update_mysql", "update_mongo"}
          /\ \E names \in [1..UpdateCount -> Names] :
                main_tasks' = [main_tasks EXCEPT ![t] =
                    [state |-> "running",
                     arg |-> [j \in 1..UpdateCount |-> <<main_inserted_cccds[j], names[j]>>]]]
          /\ UNCHANGED main_inserted_cccds
       \/ /\ main_phase \in {"write_mysql", "insert_mysql", "update_mysql"}
          /\ main_tasks' = [main_tasks EXCEPT ![t].state = "failed"]
          /\ UNCHANGED main_inserted_cccds
    /\ UNCHANGED <<benchVars, main_queries, main_results_set, main_results,
                   main_inserts_per_thread, main_pc, main_phase, main_num, main_i,
                   main_mysql_time, main_raised, mainSeenVars>>

\* A worker task starts: an insert worker generates its batch of
\* inserts_per_thread records, an update worker builds its updates from
\* self.inserted_cccds; a MySQL worker connects first, which may fail.
Main_TaskStart(t) ==
    /\ main_pc \in {"submit", "join"}
    /\ t \in 1..Len(main_tasks)
    /\ main_tasks[t].state = "queued"
    /\ \/ /\ main_phase \in {"write_mysql", "write_mongo", "insert_mysql", "insert_mongo"}
          /\ \E cccds \in [1..main_inserts_per_thread -> Keys],
                names \in [1..main_inserts_per_thread -> Names] :
                main_tasks' = [main_tasks EXCEPT ![t] =
                    [state |-> "running",
                     arg |-> [j \in 1..main_inserts_per_thread |-> <<cccds[j], names[j]>>]]]
       \/ /\ main_phase \in {"update_mysql", "update_mongo"}
          /\ \E names \in [1..UpdateCount -> Names] :
                main_tasks' = [main_tasks EXCEPT ![t] =
                    [state |-> "running",
                     arg |-> [j \in 1..UpdateCount |-> <<main_inserted_cccds[j], names[j]>>]]]
       \/ /\ main_phase \in {"write_mysql", "insert_mysql", "update_mysql"}
          /\ main_tasks' = [main_tasks EXCEPT ![t].state = "failed"]
    /\ UNCHANGED <<benchVars, mainFieldVars, main_pc, main_phase, main_num, main_i,
                   main_mysql_time, main_raised, mainSeenVars>>

\* The worker has written its batch.
Main_TaskFinish(t) ==
    /\ main_pc \in {"submit", "join"}
    /\ t \in 1..Len(main_tasks)
    /\ main_tasks[t].state = "running"
    /\ main_tasks' = [main_tasks EXCEPT ![t].state = "done"]
    /\ UNCHANGED <<benchVars, mainFieldVars, main_pc, main_phase, main_num, main_i,
                   main_mysql_time, main_raised, mainSeenVars>>

\* A write of the worker raises: the exception stays in its future.
Main_TaskFail(t) ==
    /\ main_pc \in {"submit", "join"}
    /\ t \in 1..Len(main_tasks)
    /\ main_tasks[t].state = "running"
    /\ main_tasks' = [main_tasks EXCEPT ![t].state = "failed"]
    /\ UNCHANGED <<benchVars, mainFieldVars, main_pc, main_phase, main_num, main_i,
                   main_mysql_time, main_raised, mainSeenVars>>

\* benchmark_concurrent_write_mysql(num)
benchmark_concurrent_write_mysql(n) ==
    /\ Main_Open("write_mysql", "write_mysql", n)
    /\ UNCHANGED main_inserted_cccds

\* future.result() of every task, the pool's exit, then
\* self.results.append((f"Concurrent Write {num}", duration, None))
WriteMysqlJoin ==
    /\ main_pc = "join"
    /\ main_phase = "write_mysql"
    /\ Main_AllTasksOver
    /\ IF Main_SomeTaskFailed
       THEN /\ Main_Propagate("worker error")
            /\ UNCHANGED main_results
       ELSE IF ~main_results_set
       THEN /\ Main_Propagate("AttributeError")
            /\ UNCHANGED main_results
       ELSE /\ \E d \in Durations :
                  main_results' = Append(main_results,
                      [name |-> <<"Concurrent Write", main_num>>, mysql_time |-> d,
                       mongo_time |-> None])
            /\ main_pc' = "idle"
            /\ UNCHANGED main_raised
    /\ IF main_pc' = "idle" THEN Main_NoLocals
       ELSE UNCHANGED <<main_phase, main_num, main_i, main_mysql_time, main_tasks>>
    /\ UNCHANGED <<benchVars, main_queries, main_results_set, main_inserted_cccds,
                   main_inserts_per_thread, mainSeenVars>>

\* benchmark_concurrent_write_mongo(num)
benchmark_concurrent_write_mongo(n) ==
    /\ Main_Open("write_mongo", "write_mongo", n)
    /\ UNCHANGED main_inserted_cccds

\* future.result() of every task, the pool's exit, then
\* name, mysql_time, _ = self.results[-1]; self.results[-1] = (name, mysql_time, duration)
WriteMongoJoin ==
    /\ main_pc = "join"
    /\ main_phase = "write_mongo"
    /\ Main_AllTasksOver
    /\ IF Main_SomeTaskFailed
       THEN /\ Main_Propagate("worker error")
            /\ UNCHANGED main_results
       ELSE IF ~main_results_set
       THEN /\ Main_Propagate("AttributeError")
            /\ UNCHANGED main_results
       ELSE IF main_results = <<>>
       THEN /\ Main_Propagate("IndexError")
            /\ UNCHANGED main_results
       ELSE /\ \E d \in Durations :
                  main_results' = [main_results EXCEPT ![Len(main_results)].mongo_time = d]
            /\ main_pc' = "idle"
            /\ UNCHANGED main_raised
    /\ IF main_pc' = "idle" THEN Main_NoLocals
       ELSE UNCHANGED <<main_phase, main_num, main_i, main_mysql_time, main_tasks>>
    /\ UNCHANGED <<benchVars, main_queries, main_results_set, main_inserted_cccds,
                   main_inserts_per_thread, mainSeenVars>>

\* benchmark_concurrent_insert(): self.inserted_cccds.clear(), the MySQL pool
Main_benchmark_concurrent_insert ==
    /\ Main_Open("insert", "insert_mysql", None)
    /\ main_inserted_cccds' = <<>>

\* benchmark_concurrent_update(num): the MySQL pool
Main_benchmark_concurrent_update(n) ==
    /\ Main_Open("update", "update_mysql", n)
    /\ UNCHANGED main_inserted_cccds

\* The MySQL pool has shut down (no future is asked for its result):
\* mysql_time is taken, insert clears self.inserted_cccds again, and the
\* MongoDB pool is opened.
Main_MysqlJoin ==
    /\ main_pc = "join"
    /\ main_phase \in {"insert_mysql", "update_mysql"}
    /\ Main_AllTasksOver
    /\ \E d \in Durations : main_mysql_time' = d
    /\ main_phase' = IF main_phase = "insert_mysql" THEN "insert_mongo" ELSE "update_mongo"
    /\ main_inserted_cccds' = IF main_phase = "insert_mysql" THEN <<>> ELSE main_inserted_cccds
    /\ main_tasks' = <<>>
    /\ main_pc' = "submit"
    /\ UNCHANGED <<benchVars, main_queries, main_results_set, main_results,
                   main_inserts_per_thread, main_num, main_i, main_raised, mainSeenVars>>

\* The MongoDB pool has shut down: mongo_time is taken and
\* self.results.append(("Concurrent Insert" / f"Concurrent Update {num}", ...))
Main_MongoJoin ==
    /\ main_pc = "join"
    /\ main_phase \in {"insert_mongo", "update_mongo"}
    /\ Main_AllTasksOver
    /\ IF ~main_results_set
       THEN /\ Main_Propagate("AttributeError")
            /\ UNCHANGED <<main_results, main_phase, main_num, main_i, main_mysql_time,
                           main_tasks>>
       ELSE /\ \E d \in Durations :
                  main_results' = Append(main_results,
                      [name |-> IF main_phase = "insert_mongo"
                                THEN <<"Concurrent Insert", None>>
                                ELSE <<"Concurrent Update", main_num>>,
                       mysql_time |-> main_mysql_time, mongo_time |-> d])
            /\ main_pc' = "idle"
            /\ Main_NoLocals
            /\ UNCHANGED main_raised
    /\ UNCHANGED <<benchVars, main_queries, main_results_set, main_inserted_cccds,
                   main_inserts_per_thread, mainSeenVars>>

\* Some result has no duration on one side.
HasAbsentDuration(rs) ==
    \E j \in 1..Len(rs) : rs[j].mysql_time = None \/ rs[j].mongo_time = None

\* The bars drawn for a result list: its two durations per result.
Bars(rs) == [j \in 1..Len(rs) |-> <<rs[j].mysql_time, rs[j].mongo_time>>]

\* plot_results(): the bars are built from the durations and each is
\* labelled f'{time:.4f}s', which a None duration does not support.
Main_plot_results ==
    /\ main_pc = "idle"
    /\ Enter(<<"plot_results", None>>)
    /\ IF ~main_results_set
       THEN /\ Main_Propagate("AttributeError")
            /\ UNCHANGED main_figure
       ELSE IF HasAbsentDuration(main_results)
       THEN /\ Main_Propagate("TypeError")
            /\ UNCHANGED main_figure
       ELSE /\ main_figure' = <<Bars(main_results)>>
            /\ UNCHANGED <<main_pc, main_raised>>
    /\ UNCHANGED <<benchVars, mainFieldVars, main_phase, main_num, main_i, main_mysql_time,
                   main_tasks, main_calls>>

MainNext ==
    \/ \E label \in 1..MaxLabel : Main_add_query(label)
    \/ \E k \in 1..MaxIpt : Main_set_inserts_per_thread(k)
    \/ Main_run
    \/ Main_RunQuery
    \/ \E n \in 1..MaxNum : benchmark_concurrent_write_mysql(n)
    \/ WriteMysqlJoin
    \/ \E n \in 1..MaxNum : benchmark_concurrent_write_mongo(n)
    \/ WriteMongoJoin
    \/ Main_benchmark_concurrent_insert
    \/ \E n \in 1..MaxNum : Main_benchmark_concurrent_update(n)
    \/ Main_MysqlJoin
    \/ Main_MongoJoin
    \/ Main_Submit
    \/ \E t \in 1..Threads : Main_TaskStart(t) \/ Main_TaskFinish(t) \/ Main_TaskFail(t)
    \/ Main_plot_results

SpecMain == MainInit /\ [][MainNext]_vars

\* ------------------------------------------------------------------------
\* Claims about utils.py
\* ------------------------------------------------------------------------
RECURSIVE Concat(_)
Concat(cs) ==
    IF cs = <<>> THEN <<>> ELSE Head(cs) \o Concat(Tail(cs))

\* C1: for a positive number of chunks, the chunks of divide_chunks joined in
\* order are the input list itself.
C1_ConcatReproduces ==
    (fn = "divide_chunks" /\ arg_n > 0) =>
        (ret.status = "ok" /\ Concat(ret.value) = arg_list)

C1_Witness ==
    /\ fn = "divide_chunks" /\ arg_n = 3 /\ Len(arg_list) = 4
    /\ ret.status = "ok" /\ arg_list[1] # arg_list[2]

CeilDiv(a, b) == (a + b - 1) \div b

\* C2: for a positive n there are exactly n chunks; the first len mod n have
\* ceil(len/n) elements and the others floor(len/n).
C2_ChunkSizes ==
    (fn = "divide_chunks" /\ arg_n > 0) =>
        /\ ret.status = "ok"
        /\ Len(ret.value) = arg_n
        /\ \A j \in 1..arg_n :
              Len(ret.value[j]) =
                  IF j <= Len(arg_list) % arg_n
                  THEN CeilDiv(Len(arg_list), arg_n)
                  ELSE Len(arg_list) \div arg_n

\* partition([1..10], 3) has sizes 4, 3, 3.
C2_Witness ==
    /\ fn = "divide_chunks" /\ arg_n = 3 /\ arg_list = [e \in 1..10 |-> e]
    /\ ret = Returned(<< <<1, 2, 3, 4>>, <<5, 6, 7>>, <<8, 9, 10>> >>)

\* C3: divide_chunks fails for every n <= 0 and returns no list then.
C3_NonPositiveFails ==
    (fn = "divide_chunks" /\ arg_n <= 0) => ret.status # "ok"

\* C4: scale_list_repeat of an empty list is empty; otherwise the result has
\* length n and its element i is lst[i mod len(lst)].
C4_ScaleCyclic ==
    (fn = "scale_list_repeat" /\ arg_n >= 0) =>
        /\ ret.status = "ok"
        /\ arg_list = <<>> => ret.value = <<>>
        /\ arg_list # <<>> =>
              /\ Len(ret.value) = arg_n
              /\ \A j \in 1..arg_n :
                    ret.value[j] = arg_list[((j - 1) % Len(arg_list)) + 1]
              /\ Len(arg_list) >= arg_n => ret.value = SubSeq(arg_list, 1, arg_n)

\* scale([1,2,3], 7) cycles: the list is shorter than the target.
C4_Witness ==
    /\ fn = "scale_list_repeat" /\ arg_list = <<1, 2, 3>> /\ arg_n = 7
    /\ ret = Returned(<<1, 2, 3, 1, 2, 3, 1>>)

\* ------------------------------------------------------------------------
\* Claims about the orchestrator
\* ------------------------------------------------------------------------
\* C5: every key recorded for a backend is the key of a record handed to that
\* backend's insert tasks, and every key an update task carries is one too.
C5_UpdateKeysWereInserted ==
    /\ pc = "idle" =>
          /\ Range(inserted_cccds_mysql) \subseteq mysql_submitted
          /\ Range(inserted_cccds_mongo) \subseteq mongo_submitted
    /\ \A t \in 1..Len(tasks) :
          /\ phase = "update_mysql" => ChunkKeys(phase, tasks[t].arg) \subseteq mysql_submitted
          /\ phase = "update_mongo" => ChunkKeys(phase, tasks[t].arg) \subseteq mongo_submitted

\* C6: once a worker task of a concurrent insert or update has raised, the
\* call appends no result and does not return normally.
C6_WorkerErrorPropagates ==
    [][task_failed => (results' = results /\ pc' # "idle")]_vars

\* The timed reads run() has completed when it stands at workload k with
\* `done` reads of that workload behind it: MySQL then MongoDB, in order.
ReadsInOrder(k, done) ==
    [e \in 1..(2 * (k - 1) + done) |->
        IF e % 2 = 1 THEN <<"mysql", (e + 1) \div 2>> ELSE <<"mongo", e \div 2>>]

ReadErrors == {"mysql read error", "mongo read error"}

\* C7: when a timed read of workload i raises, run() is left with that error,
\* results holds exactly the i-1 earlier workloads' entries and no read of a
\* later workload has run.
C7_RunStopsOnError ==
    raised \in ReadErrors =>
        /\ pc = "aborted"
        /\ Len(results) = i - 1
        /\ \A j \in 1..Len(results) :
              /\ results[j].name = queries[j]
              /\ results[j].mysql_time # None
              /\ results[j].mongo_time # None
        /\ \A e \in 1..Len(executed) :
              /\ executed[e][2] <= i
              /\ executed[e] # <<"mongo", i>>

\* MySQL succeeded and MongoDB failed on the second workload.
C7_Witness ==
    /\ raised = "mongo read error"
    /\ i = 2
    /\ executed = <<<<"mysql", 1>>, <<"mongo", 1>>, <<"mysql", 2>>>>
    /\ Len(results) = 1

\* C8: each time run() appends, results holds one entry per workload processed
\* so far, in registration order, with the workload's label and both
\* durations, the reads having run MySQL-then-MongoDB workload by workload;
\* and run() returns only after the last registered workload.
C8_RunOneResultPerWorkload ==
    [][pc = "run_append" =>
          /\ Len(results') = i
          /\ \A j \in 1..i :
                /\ results'[j].name = queries[j]
                /\ results'[j].mysql_time \in Durations
                /\ results'[j].mongo_time \in Durations
          /\ executed = ReadsInOrder(i, 2)
          /\ pc' = "idle" => i = Len(queries)]_vars

\* run() has returned over two workloads with different labels.
C8_Witness ==
    /\ pc = "idle"
    /\ queries = <<<<"Query", 2>>, <<"Query", 1>>>>
    /\ executed = ReadsInOrder(2, 2)
    /\ Len(results) = 2
    /\ results[1].name = <<"Query", 2>>
    /\ results[2].name = <<"Query", 1>>

\* C9 as stated: apart from an explicit clear, every step of run(),
\* benchmark_concurrent_insert and benchmark_concurrent_update keeps the
\* results it found, unmodified and in place.
C9_AppendOnlyAcrossAllCalls ==
    [][~ClearResults => IsPrefix(results, results')]_vars

\* C9 amended: apart from an explicit clear and the entry of run(), which
\* resets the list, every step keeps the results it found, unmodified and in
\* place, and adds at most one entry at the end.
C9_AppendOnlyExceptRunEntry ==
    [][(~ClearResults /\ ~run) =>
          /\ IsPrefix(results, results')
          /\ Len(results') <= Len(results) + 1]_vars

\* Two concurrent calls have each left their entry, in call order.
C9_Witness ==
    /\ pc = "idle"
    /\ Len(results) = 2
    /\ results[1].name[1] = "Concurrent Insert"
    /\ results[2].name[1] = "Concurrent Update"

\* C10: no two running worker tasks work on the same connection, and none
\* works on the orchestrator's own.
C10_NoSharedConnection ==
    \A t \in 1..Len(tasks) :
        tasks[t].state = "running" =>
            /\ tasks[t].conn # OrchestratorConn
            /\ \A u \in 1..Len(tasks) :
                  (u # t /\ tasks[u].state = "running") => tasks[u].conn # tasks[t].conn

MysqlPhases == {"insert_mysql", "update_mysql"}
MongoPhases == {"insert_mongo", "update_mongo"}
InsertPhases == {"insert_mysql", "insert_mongo"}

\* C11: a call moves from its MySQL phase to its MongoDB phase only when every
\* MySQL task is over, taking mysql_time in that step, so MongoDB tasks exist
\* only with mysql_time taken; and a duration is taken or a result appended
\* during a concurrent call only when every task of the open pool is over.
C11_PhasesDoNotOverlap ==
    [][/\ (phase \in MysqlPhases /\ phase' \in MongoPhases) =>
              (AllTasksOver /\ mysql_time' \in Durations /\ tasks' = <<>>)
       /\ (phase' \in MongoPhases /\ tasks' # <<>>) => mysql_time' \in Durations
       /\ (phase # "none" /\ (mysql_time' # mysql_time \/ mongo_time' # mongo_time
                              \/ results' # results)) => AllTasksOver]_vars

\* A MongoDB insert task runs, the MySQL duration already taken.
C11_Witness ==
    /\ phase = "insert_mongo"
    /\ num = 2
    /\ mysql_time \in Durations
    /\ Len(tasks) = 2
    /\ tasks[1].state = "running"
    /\ tasks[2].state = "queued"

\* At most Threads chunks holding n items in all, sizes at most 1 apart.
Balanced(cs, n) ==
    /\ Len(cs) <= Threads
    /\ Len(Concat(cs)) = n
    /\ \A a, b \in 1..Len(cs) : Len(cs[a]) - Len(cs[b]) <= 1

\* C12: entering a backend's insert phase, the num generated records are split
\* over at most Threads chunks at most 1 apart in size and that backend's key
\* list grows by exactly num entries (for MySQL: the keys of the chunked
\* records, in chunk order); the tasks submitted carry exactly those chunks.
C12_InsertSplitsAndRecords ==
    [][/\ (pc = "idle" /\ phase' = "insert_mysql") =>
              /\ Balanced(chunks', num')
              /\ inserted_cccds_mysql' = inserted_cccds_mysql \o
                    [j \in 1..num' |-> ItemKey("insert_mysql", Concat(chunks')[j])]
       /\ (phase = "insert_mysql" /\ phase' = "insert_mongo") =>
              /\ Balanced(chunks', num)
              /\ Len(inserted_cccds_mongo') = Len(inserted_cccds_mongo) + num
       /\ (phase \in InsertPhases /\ pc = "join") =>
              /\ Len(tasks) = Len(chunks)
              /\ \A t \in 1..Len(tasks) : tasks[t].arg = chunks[t]]_vars

\* Two records went to two MongoDB tasks, one each, on a fresh orchestrator.
C12_Witness ==
    /\ phase = "insert_mongo"
    /\ pc = "join"
    /\ num = 2
    /\ calls = 1
    /\ Len(tasks) = 2
    /\ Len(tasks[1].arg) = 1
    /\ Len(tasks[2].arg) = 1
    /\ Len(inserted_cccds_mysql) = 2
    /\ Len(inserted_cccds_mongo) = 2

\* The update phase's key list: the backend's own.
PhaseKeys == IF phase = "update_mysql" THEN inserted_cccds_mysql ELSE inserted_cccds_mongo

\* C13: in an update phase over a non-empty key list K the chunks hold exactly
\* num updates, update j (in chunk order) matching on K[j mod len(K)] and
\* setting a generated name, and the tasks submitted carry exactly those chunks.
C13_UpdatesCycleOwnKeys ==
    (phase \in {"update_mysql", "update_mongo"} /\ PhaseKeys # <<>>) =>
        LET updates == Concat(chunks) IN
            /\ Len(updates) = num
            /\ \A j \in 1..Len(updates) :
                  /\ ItemKey(phase, updates[j]) = PhaseKeys[((j - 1) % Len(PhaseKeys)) + 1]
                  /\ ItemName(phase, updates[j]) \in Names
            /\ \A t \in 1..Len(tasks) : tasks[t].arg = chunks[t]

\* Two MySQL updates over the single recorded key 2: the key is reused.
C13_Witness ==
    /\ phase = "update_mysql"
    /\ pc = "join"
    /\ inserted_cccds_mysql = <<2>>
    /\ num = 2
    /\ tasks[1].arg = <<<<1, 2>>>>
    /\ tasks[2].arg = <<<<1, 2>>>>

\* C14: a 'Concurrent Update' result is appended only by a call that found
\* both backends' key lists non-empty.
C14_NoUpdateResultWithoutKeys ==
    [][(phase = "update_mongo" /\ num >= 1 /\ Len(results') > Len(results)) =>
          (inserted_cccds_mysql # <<>> /\ inserted_cccds_mongo # <<>>)]_vars

\* C15: a step that empties the result list (the explicit clear, the entry of
\* run()) leaves both key lists as they were, and an update phase carries
\* only keys of its backend's list.
C15_ClearKeepsKeys ==
    [][/\ (results # <<>> /\ results' = <<>>) =>
              UNCHANGED <<inserted_cccds_mysql, inserted_cccds_mongo>>
       /\ phase' \in {"update_mysql", "update_mongo"} =>
              \A c \in 1..Len(chunks') :
                  ChunkKeys(phase', chunks'[c]) \subseteq
                      Range(IF phase' = "update_mysql" THEN inserted_cccds_mysql'
                            ELSE inserted_cccds_mongo')]_vars

\* An update round runs on recorded keys with the results cleared before it.
C15_Witness ==
    /\ phase = "update_mysql"
    /\ pc = "join"
    /\ results = <<>>
    /\ calls = 2
    /\ inserted_cccds_mysql = <<2, 1>>
    /\ tasks[1].arg = <<<<1, 2>>>>
    /\ tasks[2].arg = <<<<1, 1>>>>

\* C18: a step that changes results or a key list is taken with no worker
\* task queued or running, and by the orchestrator: a worker task's step
\* changes none of them.
C18_FieldsWrittenOutsidePools ==
    [][/\ (results' # results \/ inserted_cccds_mysql' # inserted_cccds_mysql
           \/ inserted_cccds_mongo' # inserted_cccds_mongo) =>
              \A t \in 1..Len(tasks) : tasks[t].state \in {"done", "failed"}
       /\ (tasks' # tasks /\ Len(tasks') = Len(tasks) /\ tasks' # <<>>) =>
              UNCHANGED <<results, inserted_cccds_mysql, inserted_cccds_mongo>>]_vars

\* A MySQL insert task has finished its chunk while its sibling still runs.
C18_Witness ==
    /\ phase = "insert_mysql"
    /\ Len(tasks) = 2
    /\ tasks[1].state = "done"
    /\ Len(tasks[1].arg) = 1
    /\ tasks[2].state = "running"

\* C16: an index set-up step of the construction never ends the construction
\* with an exception, for MySQL and for MongoDB alike, and a set-up step on a
\* database that already holds the index leaves it in place.
C16_IndexSetupNeverFatal ==
    [][(pc \in {"ensure_mysql", "ensure_mongo"}) =>
          /\ pc' # "aborted"
          /\ raised' = "none"
          /\ mysql_index => mysql_index'
          /\ mongo_index => mongo_index']_vars

\* The bar heights the figure should have: an absent duration drawn as 0.
BarsWithGaps(rs) ==
    [j \in 1..Len(rs) |->
        <<IF rs[j].mysql_time = None THEN 0 ELSE rs[j].mysql_time,
          IF rs[j].mongo_time = None THEN 0 ELSE rs[j].mongo_time>>]

\* C17: plot_results called on any result list the object can hold completes
\* without an exception and shows the figure, a bar of an absent duration
\* having height zero.
C17_PlotNeverRaises ==
    [][(main_pc = "idle" /\ main_results_set /\ main_last' = <<"plot_results", None, FALSE>>
        /\ <<main_last, main_figure, main_pc>>' # <<main_last, main_figure, main_pc>>) =>
          /\ main_pc' = "idle"
          /\ main_raised' = main_raised
          /\ main_figure' = <<BarsWithGaps(main_results)>>]_vars

\* The entry a write pair leaves for num
WriteEntries(n) ==
    {[name |-> <<"Concurrent Write", n>>, mysql_time |-> d1, mongo_time |-> d2] :
        d1 \in Durations, d2 \in Durations \cup {None}}

\* C19: while every write_mysql(num) is followed at once by write_mongo(num):
\* a benchmark_concurrent_write_mysql(num) whose workers all succeeded
\* returns with exactly one entry appended to results; the
\* benchmark_concurrent_write_mongo(num) that follows it keeps the length, every
\* earlier entry, and the label and MySQL duration of the last one, setting
\* its MongoDB duration; after it no entry has an absent duration.
C19_WritePairAddsOneEntry ==
    [][/\ (main_pc = "join" /\ main_phase = "write_mysql" /\ main_pc' # "join"
           /\ ~Main_SomeTaskFailed) =>
              /\ main_pc' = "idle"
              /\ \E e \in WriteEntries(main_num) :
                    /\ e.mongo_time = None
                    /\ main_results' = Append(main_results, e)
       /\ (main_pc = "join" /\ main_phase = "write_mongo" /\ main_pc' # "join"
           /\ ~Main_SomeTaskFailed /\ main_paired /\ main_last[3]) =>
              /\ main_pc' = "idle"
              /\ Len(main_results') = Len(main_results)
              /\ Len(main_results) >= 1
              /\ \A j \in 1..(Len(main_results) - 1) : main_results'[j] = main_results[j]
              /\ main_results'[Len(main_results)].name = main_results[Len(main_results)].name
              /\ main_results'[Len(main_results)].mysql_time =
                    main_results[Len(main_results)].mysql_time
              /\ main_results'[Len(main_results)].mongo_time \in Durations
              /\ ~HasAbsentDuration(main_results')]_vars

\* C20: inserted_cccds of main.py's object is empty in every state, and every
\* update worker task that has started built an empty list of updates.
C20_MainUpdatesAreEmpty ==
    /\ main_inserted_cccds = <<>>
    /\ main_phase \in {"update_mysql", "update_mongo"} =>
          \A t \in 1..Len(main_tasks) : main_tasks[t].arg = <<>>

\* An update worker ran after a completed write pair with
\* inserts_per_thread = 2.
C20_Witness ==
    /\ main_phase = "update_mongo"
    /\ main_inserts_per_thread = 2
    /\ main_results_set
    /\ Len(main_results) = 1
    /\ main_results[1].name[1] = "Concurrent Write"
    /\ Len(main_tasks) = 2
    /\ main_tasks[1].state = "done"
    /\ main_tasks[2].state = "running"

====
